---- MODULE Spec2Model ----
(***************************************************************************)
(* Video-URL resolution pipeline of Meeting-Video-Scraper.                 *)
(*                                                                         *)
(* Two scripts implement process_url:                                      *)
(*   video_extractor/extract_video_urls.py      (module "urls")            *)
(*   video_extractor/extract_embedded_videos.py (module "embedded")        *)
(* Both probe the input URL with yt-dlp, then fetch the page, collect      *)
(* candidate URLs with five strategies, remove duplicates with             *)
(* list(set(...)) and probe the candidates.                                *)
(***************************************************************************)
EXTENDS Integers, Sequences, FiniteSets, TLC

(***************************************************************************)
(* Bounds                                                                  *)
(***************************************************************************)
\* string-hash seeds an interpreter process may start with (PYTHONHASHSEED)
MaxSeed == 2
\* longest list of input URLs a caller goes through
MaxInputs == 3
\* longest list of URLs the test drivers go through
MaxTestUrls == 5
\* most entries (direct entries and medias) of all_videos.json
MaxEntries == 2

(***************************************************************************)
(* URLs and attribute values                                               *)
(***************************************************************************)
\* A URL or attribute value: host "" means a relative reference, rooted says
\* whether the path starts with "/", ext is the text after the last dot.
Ref(h, r, p, e) == [host |-> h, rooted |-> r, path |-> p, ext |-> e]

\* Python's None: an attribute absent from the tag (tag.get(name)), or the
\* value process_url returns when nothing was found
None == Ref("<None>", FALSE, <<>>, "")
\* attribute present with the empty string as value
EmptyAttr == Ref("", FALSE, <<>>, "")

\* a test for presence that takes the empty string for a value
Truthy_present(v) == v # None

\* Python truthiness of tag.get(name)
Truthy(v) == v # None /\ v # EmptyAttr

\* str.startswith(('http://', 'https://')) / str.startswith('http')
IsAbsolute(v) == v.host # "" /\ v # None

\* urllib.parse.urljoin(base, ref)
urljoin(base, v) ==
    IF v.host # "" THEN v
    ELSE IF v.path = <<>> THEN base
    ELSE IF v.rooted THEN Ref(base.host, TRUE, v.path, v.ext)
    ELSE Ref(base.host, TRUE,
             SubSeq(base.path, 1, Len(base.path) - 1) \o v.path, v.ext)

(***************************************************************************)
(* Pages                                                                   *)
(***************************************************************************)
Video(src, sources) == [src |-> src, sources |-> sources]
Script(json, ok, pairs) == [type_json |-> json, parsable |-> ok, pairs |-> pairs]
Pair(k, v) == [key |-> k, value |-> v]
Anchor(href, text) == [href |-> href, text |-> text]
Literal(v, t) == [value |-> v, trail |-> t]

Page(v, f, s, l, a) ==
    [videos |-> v, iframes |-> f, scripts |-> s, literals |-> l, anchors |-> a]

\* the input page and the URL a redirect of it ends at
Meeting == Ref("example.org", TRUE, <<"meeting">>, "")
Event1 == Ref("site.org", TRUE, <<"events", "1">>, "")

MediaA == Ref("", TRUE, <<"media", "a">>, "mp4")
AbsA == Ref("example.org", TRUE, <<"media", "a">>, "mp4")
EmbedX == Ref("embed.example.com", TRUE, <<"x">>, "")
Clip == Ref("", TRUE, <<"clip">>, "mp4")
RelPlayer == Ref("", FALSE, <<"player">>, "")
Stream == Ref("", TRUE, <<"hls", "s">>, "m3u8")
CdnB == Ref("cdn.example.com", TRUE, <<"b">>, "webm")
DownloadB == Ref("", TRUE, <<"download", "b">>, "")
Minutes == Ref("", TRUE, <<"minutes">>, "")

EmptyPage == Page(<<>>, <<>>, <<>>, <<>>, <<>>)

Pages ==
    { EmptyPage,
      \* tags without usable attributes, a link that is not a download link
      Page(<<Video(None, <<EmptyAttr>>)>>, <<None>>,
           <<Script(FALSE, TRUE, <<>>)>>, <<>>, <<Anchor(Minutes, {})>>),
      \* <video src="/media/a.mp4"> and an embedded player
      Page(<<Video(MediaA, <<>>)>>, <<EmbedX>>, <<>>, <<>>, <<>>),
      \* the same file named by the tag, its <source>, and a download anchor
      Page(<<Video(AbsA, <<MediaA>>)>>, <<EmbedX>>, <<>>, <<>>,
           <<Anchor(MediaA, {"download", "video"})>>),
      \* relative sources and a relative iframe
      Page(<<Video(None, <<Clip, EmptyAttr>>)>>, <<RelPlayer, None>>,
           <<>>, <<>>, <<>>),
      \* a relative iframe and a link to the same player
      Page(<<>>, <<RelPlayer>>, <<>>, <<>>,
           <<Anchor(RelPlayer, {"video"})>>),
      \* player configured from inline JSON
      Page(<<>>, <<>>,
           <<Script(TRUE, TRUE, <<Pair("poster", Minutes), Pair("url", CdnB)>>),
             Script(TRUE, FALSE, <<Pair("src", CdnB)>>)>>,
           <<>>, <<>>),
      \* bare file names in the page text, one followed by a blank
      Page(<<>>, <<>>, <<>>,
           <<Literal(CdnB, "space"), Literal(AbsA, "quote")>>,
           <<Anchor(Minutes, {})>>),
      \* anchors only: keyword in href, keyword in text, anchor without href
      Page(<<>>, <<EmbedX>>, <<>>, <<>>,
           <<Anchor(DownloadB, {"download"}), Anchor(None, {"video"}),
             Anchor(Minutes, {})>>) }


(***************************************************************************)
(* Sequence helpers                                                        *)
(***************************************************************************)
Range(s) == {s[i] : i \in 1..Len(s)}

RECURSIVE Flatten(_)
Flatten(ss) == IF ss = <<>> THEN <<>> ELSE Head(ss) \o Flatten(Tail(ss))

\* [f(x) for x in s]
MapSeq(s, F(_)) == [i \in 1..Len(s) |-> F(s[i])]

\* [x for x in s if T(x)]
FilterSeq(s, T(_)) ==
    LET F[i \in 0..Len(s)] ==
            IF i = 0 THEN <<>>
            ELSE IF T(s[i]) THEN Append(F[i - 1], s[i]) ELSE F[i - 1]
    IN  F[Len(s)]

(***************************************************************************)
(* Candidate extraction                                                    *)
(***************************************************************************)
\* words a substring test such as 'download' in href can find in a URL
HrefWords(v) == IF v = None THEN {} ELSE Range(v.path) \cup {v.host}

\* every quoted attribute or JSON value of the document, then the other
\* literals of the page text, as the regular expressions meet them in
\* response.text
PageText(page) ==
    LET quoted(v) == Literal(v, "quote")
        present(v) == v # None
        ofVideo(v) == <<v.src>> \o v.sources
        ofScript(s) == MapSeq(s.pairs, LAMBDA p : p.value)
        ofAnchor(a) == a.href
        attrs == Flatten(MapSeq(page.videos, ofVideo)) \o page.iframes
                 \o Flatten(MapSeq(page.scripts, ofScript))
                 \o MapSeq(page.anchors, ofAnchor)
    IN  MapSeq(FilterSeq(attrs, present), quoted) \o page.literals

\* extract_video_urls.py: extract_urls_from_json, on the key/value pairs of a
\* parsed document
urls_extract_urls_from_json(pairs) ==
    LET keys == {"url", "src", "source", "videoUrl", "video_url", "media",
                 "mediaUrl"}
        hit(p) == p.key \in keys /\ IsAbsolute(p.value)
    IN  MapSeq(FilterSeq(pairs, hit), LAMBDA p : p.value)

\* extract_video_urls.py: the list potential_urls that
\* extract_video_url_from_webpage has built before it removes duplicates
urls_potential_urls(page_url, page) ==
    LET ofVideo(v) ==
            (IF Truthy(v.src) THEN <<urljoin(page_url, v.src)>> ELSE <<>>)
            \o MapSeq(FilterSeq(v.sources, Truthy),
                      LAMBDA s : urljoin(page_url, s))
        videoTags == Flatten(MapSeq(page.videos, ofVideo))
        iframes == FilterSeq(page.iframes, Truthy)
        ofScript(s) ==
            IF s.type_json /\ s.parsable
            THEN urls_extract_urls_from_json(s.pairs) ELSE <<>>
        jsonData == Flatten(MapSeq(page.scripts, ofScript))
        exts == {"mp4", "mov", "avi", "wmv", "flv", "webm", "m3u8", "mpd"}
        matches(l) == IsAbsolute(l.value) /\ l.value.ext \in exts
        \* match.group(0).strip('\'"') keeps a trailing blank
        stripped(l) ==
            IF l.trail = "quote" THEN l.value
            ELSE [l.value EXCEPT !.ext = @ \o " "]
        patterns == MapSeq(FilterSeq(PageText(page), matches), stripped)
        isLink(a) ==
            /\ a.href # None
            /\ \/ "download" \in HrefWords(a.href)
               \/ "download" \in a.text
               \/ "video" \in a.text
        links == MapSeq(FilterSeq(page.anchors, isLink),
                        LAMBDA a : urljoin(page_url, a.href))
    IN  videoTags \o iframes \o jsonData \o patterns \o links

VIDEO_EXTENSIONS ==
    <<"mp4", "webm", "mov", "avi", "wmv", "flv", "m3u8", "mpd", "ts">>

\* json_pattern matches the pair: a recognized key, a value ending in one of
\* the extensions of the pattern
json_pattern(p) ==
    /\ p.key \in {"url", "src", "source", "file", "videoUrl", "videoSrc"}
    /\ p.value.ext \in {"mp4", "webm", "m3u8", "mpd"}

\* extract_embedded_videos.py, strategy 3: the URLs taken from the scripts
embedded_script_urls(base_url, page) ==
    LET \* video_url = match[3] + match[4]
        joined(p) == [p.value EXCEPT !.ext = @ \o p.value.ext]
        absolute(v) == IF IsAbsolute(v) THEN v ELSE urljoin(base_url, v)
        ofScript(s) == MapSeq(FilterSeq(s.pairs, json_pattern),
                              LAMBDA p : absolute(joined(p)))
    IN  Flatten(MapSeq(page.scripts, ofScript))

\* extract_embedded_videos.py: the list potential_urls that
\* extract_video_urls_from_page has built before it removes duplicates
embedded_potential_urls(base_url, page) ==
    LET ofVideo(v) ==
            (IF Truthy(v.src) THEN <<urljoin(base_url, v.src)>> ELSE <<>>)
            \o MapSeq(FilterSeq(v.sources, Truthy),
                      LAMBDA s : urljoin(base_url, s))
        videoTags == Flatten(MapSeq(page.videos, ofVideo))
        iframes == MapSeq(FilterSeq(page.iframes, Truthy),
                          LAMBDA s : urljoin(base_url, s))
        absolute(v) == IF IsAbsolute(v) THEN v ELSE urljoin(base_url, v)
        inScripts == embedded_script_urls(base_url, page)
        ofExtension(e) ==
            MapSeq(FilterSeq(PageText(page),
                             LAMBDA l : l.trail = "quote" /\ l.value.ext = e),
                   LAMBDA l : absolute(l.value))
        directLinks == Flatten(MapSeq(VIDEO_EXTENSIONS, ofExtension))
        download_keywords == {"download", "media", "video"}
        ofAnchor(a) ==
            (IF Truthy(a.href) /\ HrefWords(a.href) \cap download_keywords # {}
             THEN <<urljoin(base_url, a.href)>> ELSE <<>>)
            \o (IF a.text \cap download_keywords # {}
                THEN <<urljoin(base_url,
                               IF a.href = None THEN EmptyAttr ELSE a.href)>>
                ELSE <<>>)
        downloadLinks == Flatten(MapSeq(page.anchors, ofAnchor))
    IN  videoTags \o iframes \o inScripts \o directLinks \o downloadLinks

(***************************************************************************)
(* list(set(potential_urls)): CPython's hash set of strings                *)
(***************************************************************************)
\* hash values are kept to 6 bits
HashSpace == 64
PySet_MINSIZE == 8
LINEAR_PROBES == 9
\* perturb >>= PERTURB_SHIFT
PerturbDivisor == 32

Unused == [key |-> None, hash |-> 0]

RECURSIVE SumLen(_)
SumLen(path) ==
    IF path = <<>> THEN 0 ELSE 3 + Len(Head(path)) + 2 * SumLen(Tail(path))

\* hash(str) under the seed the interpreter process started with
StrHash(seed, u) ==
    ((seed + 1) * (Len(u.host) + SumLen(u.path) + 7 * Len(u.ext)) + seed)
        % HashSpace

\* the slot set_add_entry / set_insert_clean ends at: the entry holding key,
\* or the first unused entry of the probe sequence
RECURSIVE set_lookup(_, _, _, _, _)
set_lookup(table, key, i, perturb, probes) ==
    LET mask == Len(table) - 1
        run == IF i + LINEAR_PROBES <= mask THEN LINEAR_PROBES ELSE 0
        slot == i + probes
    IN  IF table[slot + 1] = Unused \/ table[slot + 1].key = key THEN slot
        ELSE IF probes < run
             THEN set_lookup(table, key, i, perturb, probes + 1)
             ELSE set_lookup(table, key,
                             (i * 5 + 1 + perturb \div PerturbDivisor)
                                 % (mask + 1),
                             perturb \div PerturbDivisor, 0)

set_insert(table, entry) ==
    LET mask == Len(table) - 1
        slot == set_lookup(table, entry.key, entry.hash % (mask + 1),
                           entry.hash, 0)
    IN  [table EXCEPT ![slot + 1] = entry]

Used(table) == Cardinality({i \in 1..Len(table) : table[i] # Unused})

RECURSIVE NewSize(_, _)
NewSize(size, minused) ==
    IF size <= minused THEN NewSize(2 * size, minused) ELSE size

RECURSIVE InsertAll(_, _)
InsertAll(table, entries) ==
    IF entries = <<>> THEN table
    ELSE InsertAll(set_insert(table, Head(entries)), Tail(entries))

EmptyTable(size) == [i \in 1..size |-> Unused]

\* set_table_resize(so, so->used * 4)
set_table_resize(table) ==
    InsertAll(EmptyTable(NewSize(PySet_MINSIZE, 4 * Used(table))),
              FilterSeq(table, LAMBDA e : e # Unused))

\* set_add_key
set_add(table, seed, key) ==
    LET added == set_insert(table, [key |-> key, hash |-> StrHash(seed, key)])
        mask == Len(table) - 1
    IN  IF Used(added) = Used(table) \/ Used(added) * 5 < mask * 3 THEN added
        ELSE set_table_resize(added)

RECURSIVE set_update(_, _, _)
set_update(table, seed, keys) ==
    IF keys = <<>> THEN table
    ELSE set_update(set_add(table, seed, Head(keys)), seed, Tail(keys))

\* a list that keeps its duplicates
list_set_keep(seed, potential_urls) == potential_urls

\* list(set(potential_urls)): the keys in table order
list_set(seed, potential_urls) ==
    MapSeq(FilterSeq(set_update(EmptyTable(PySet_MINSIZE), seed,
                                potential_urls),
                     LAMBDA e : e # Unused),
           LAMBDA e : e.key)

(***************************************************************************)
(* The yt-dlp oracle                                                       *)
(***************************************************************************)
\* what the yt_dlp module does with a URL: extract_info returns a dict,
\* returns None, or raises
ModuleOutcomes == {"info", "None", "DownloadError"}
\* what `python -m yt_dlp --simulate` does when the module cannot be imported
\* by the script: exit 0, exit non-zero with or without text on stderr, run
\* into the timeout, or fail to start
SubprocessOutcomes ==
    {"rc0", "rc1", "rc1_silent", "TimeoutExpired", "FileNotFoundError"}

Outcomes(engine) ==
    IF engine = "module" THEN ModuleOutcomes ELSE SubprocessOutcomes

\* outcomes in which yt-dlp can extract a stream
Extracts == {"info", "rc0"}

\* a class test in which TimeoutExpired is a class of its own
IsInstance_exact(exc, cls) == cls = exc

\* isinstance(exc, cls) for the exception classes the handlers name
IsInstance(exc, cls) ==
    \/ cls = "Exception"
    \/ cls = exc
    \/ cls = "SubprocessError" /\ exc = "TimeoutExpired"

Return(d, e) == [raised |-> "", downloadable |-> d, error |-> e]
Raise(exc) == [raised |-> exc, downloadable |-> FALSE, error |-> ""]

\* extract_video_urls.py: is_downloadable_with_ytdlp
urls_is_downloadable_with_ytdlp(engine, outcome) ==
    LET import == IF engine = "module" THEN Return(TRUE, "")
                  ELSE Raise("ImportError")
        module ==
            IF outcome = "DownloadError" THEN Raise("DownloadError")
            ELSE Return(outcome = "info", "")
        subprocess ==
            IF outcome \in {"TimeoutExpired", "FileNotFoundError"}
            THEN Raise(outcome)
            ELSE Return(outcome = "rc0", "")
        inner ==
            IF import.raised = "" THEN module
            ELSE IF IsInstance(import.raised, "ImportError") THEN subprocess
            ELSE import
    IN  IF inner.raised = "" THEN inner
        ELSE IF IsInstance(inner.raised, "TimeoutExpired")
             THEN Return(FALSE, "")
        ELSE IF IsInstance(inner.raised, "Exception") THEN Return(FALSE, "")
        ELSE inner

\* the same without the outer except clause
embedded_is_downloadable_unguarded(engine, outcome) ==
    LET import == IF engine = "module" THEN Return(TRUE, "")
                  ELSE Raise("ImportError")
        module ==
            IF outcome = "DownloadError" THEN Raise("DownloadError")
            ELSE Return(TRUE, "")
        run ==
            IF outcome \in {"TimeoutExpired", "FileNotFoundError"}
            THEN Raise(outcome)
            ELSE IF outcome = "rc0" THEN Return(TRUE, "")
            ELSE Return(FALSE, IF outcome = "rc1" THEN "stderr" ELSE "")
        subprocess ==
            IF run.raised # "" /\ IsInstance(run.raised, "SubprocessError")
            THEN Return(FALSE, "Subprocess error: " \o run.raised)
            ELSE run
        body == IF import.raised = "" THEN module ELSE import
    IN  IF body.raised = "" THEN body
        ELSE IF IsInstance(body.raised, "ImportError") THEN subprocess
        ELSE IF IsInstance(body.raised, "Exception")
             THEN Return(FALSE, body.raised)
        ELSE body

\* extract_embedded_videos.py: is_downloadable_with_ytdlp
embedded_is_downloadable_with_ytdlp(engine, outcome) ==
    LET import == IF engine = "module" THEN Return(TRUE, "")
                  ELSE Raise("ImportError")
        module ==
            IF outcome = "DownloadError" THEN Raise("DownloadError")
            ELSE Return(TRUE, "")
        run ==
            IF outcome \in {"TimeoutExpired", "FileNotFoundError"}
            THEN Raise(outcome)
            ELSE IF outcome = "rc0" THEN Return(TRUE, "")
            ELSE Return(FALSE, IF outcome = "rc1" THEN "stderr" ELSE "")
        subprocess ==
            IF run.raised # "" /\ IsInstance(run.raised, "SubprocessError")
            THEN Return(FALSE, "Subprocess error: " \o run.raised)
            ELSE run
        body == IF import.raised = "" THEN module ELSE import
        inner ==
            IF body.raised = "" THEN body
            ELSE IF IsInstance(body.raised, "ImportError") THEN subprocess
            ELSE IF IsInstance(body.raised, "Exception")
                 THEN Return(FALSE, body.raised)
            ELSE body
    IN  IF inner.raised # "" /\ IsInstance(inner.raised, "Exception")
        THEN Return(FALSE, inner.raised)
        ELSE inner

\* test_yt_dlp_urls.py: is_downloadable_with_ytdlp
test_is_downloadable_with_ytdlp(engine, outcome) ==
    LET import == IF engine = "module" THEN Return(TRUE, "")
                  ELSE Raise("ImportError")
        module ==
            IF outcome = "DownloadError" THEN Raise("DownloadError")
            ELSE Return(TRUE, "")
        body == IF import.raised = "" THEN module ELSE import
        inner ==
            IF body.raised = "" THEN body
            ELSE IF IsInstance(body.raised, "ImportError")
                 THEN Return(FALSE, "Import error: " \o body.raised)
            ELSE IF IsInstance(body.raised, "Exception")
                 THEN Return(FALSE, body.raised)
            ELSE body
    IN  IF inner.raised # "" /\ IsInstance(inner.raised, "Exception")
        THEN Return(FALSE, inner.raised)
        ELSE inner

\* a formatting that lists every URL as downloadable
format_results_flat(results) ==
    [downloadable_urls |-> MapSeq(results, LAMBDA r : r.url),
     not_downloadable_urls |-> <<>>,
     results_details |->
        MapSeq(results,
               LAMBDA r : [url |-> r.url, is_downloadable |-> r.downloadable])]

\* test_yt_dlp_urls.py: format_results
format_results(results) ==
    [downloadable_urls |->
        MapSeq(FilterSeq(results, LAMBDA r : r.downloadable),
               LAMBDA r : r.url),
     not_downloadable_urls |->
        MapSeq(FilterSeq(results, LAMBDA r : ~r.downloadable),
               LAMBDA r : r.url),
     results_details |->
        MapSeq(results,
               LAMBDA r : IF r.error # ""
                          THEN [url |-> r.url,
                                is_downloadable |-> r.downloadable,
                                error |-> r.error]
                          ELSE [url |-> r.url,
                                is_downloadable |-> r.downloadable])]

(***************************************************************************)
(* Fetching the page and extracting the candidates                         *)
(***************************************************************************)
\* requests.get + raise_for_status: the exception they raise, "" if none
FetchOutcomes == {"ok", "HTTPError", "ConnectionError", "Timeout"}

Response(o, u, p) == [outcome |-> o, url |-> u, page |-> p]

\* extract_video_urls.py: extract_video_url_from_webpage
extract_video_url_from_webpage(seed, page_url, response) ==
    LET body ==
            IF response.outcome # "ok"
            THEN [raised |-> response.outcome, value |-> <<>>]
            ELSE [raised |-> "",
                  value |-> list_set(seed,
                                urls_potential_urls(page_url, response.page))]
    IN  IF body.raised # "" /\ IsInstance(body.raised, "Exception")
        THEN [raised |-> "", value |-> <<>>]
        ELSE body

\* extract_embedded_videos.py: extract_video_urls_from_page
extract_video_urls_from_page(seed, page_url, response) ==
    LET body ==
            IF response.outcome # "ok"
            THEN [raised |-> response.outcome, value |-> <<>>]
            ELSE [raised |-> "",
                  value |-> list_set(seed,
                                embedded_potential_urls(response.url,
                                                        response.page))]
    IN  IF body.raised # "" /\ IsInstance(body.raised, "Exception")
        THEN [raised |-> "", value |-> <<>>]
        ELSE body

(***************************************************************************)
(* filter_videos_by_date.py: dates                                         *)
(***************************************************************************)
\* the JSON value under "date": a string of digit groups joined by "-",
\* the string "Unknown", or a value that is not a string
DateText(y, m, d) == [type |-> "str", fields |-> <<y, m, d>>]
Unknown == [type |-> "str", fields |-> <<>>]
NotAString == [type |-> "int", fields |-> <<>>]

RECURSIVE ToInt(_)
ToInt(digits) ==
    IF digits = <<>> THEN 0
    ELSE 10 * ToInt(SubSeq(digits, 1, Len(digits) - 1)) + digits[Len(digits)]

\* re.match(r'^\d{4}-\d{2}-\d{2}$', date_str)
re_match(date_str) ==
    /\ Len(date_str.fields) = 3
    /\ Len(date_str.fields[1]) = 4
    /\ Len(date_str.fields[2]) = 2
    /\ Len(date_str.fields[3]) = 2

\* calendar.monthrange: the days of the month
DaysIn(year, month) ==
    IF month = 2
    THEN (IF year % 4 = 0 /\ (year % 100 # 0 \/ year % 400 = 0)
          THEN 29 ELSE 28)
    ELSE IF month \in {4, 6, 9, 11} THEN 30 ELSE 31

\* a parser that does not check the calendar
strptime_lenient(date_str) ==
    IF Len(date_str.fields) = 3
    THEN [raised |-> "",
          value |-> <<ToInt(date_str.fields[1]), ToInt(date_str.fields[2]),
                      ToInt(date_str.fields[3])>>]
    ELSE [raised |-> "ValueError", value |-> <<>>]

\* datetime.strptime(date_str, "%Y-%m-%d"): %Y is four digits, %m and %d one
\* or two, and the datetime constructor checks the calendar
strptime(date_str) ==
    LET f == date_str.fields
        year == ToInt(f[1])
        month == ToInt(f[2])
        day == ToInt(f[3])
    IN  IF /\ Len(f) = 3
           /\ Len(f[1]) = 4 /\ Len(f[2]) \in 1..2 /\ Len(f[3]) \in 1..2
           /\ year >= 1 /\ month \in 1..12 /\ day \in 1..DaysIn(year, month)
        THEN [raised |-> "", value |-> <<year, month, day>>]
        ELSE [raised |-> "ValueError", value |-> <<>>]

\* datetime comparison a <= b
DateLeq(a, b) ==
    \/ a[1] < b[1]
    \/ a[1] = b[1] /\ a[2] < b[2]
    \/ a[1] = b[1] /\ a[2] = b[2] /\ a[3] <= b[3]

\* the checks of the loop body: the video is kept
date_in_range(start, end, date_str) ==
    /\ date_str # Unknown
    /\ date_str.type = "str"
    /\ re_match(date_str)
    /\ strptime(date_str).raised = ""
    /\ DateLeq(start, strptime(date_str).value)
    /\ DateLeq(strptime(date_str).value, end)

\* the loop over all_sources: filtered_sources and total_filtered_videos
filter_sources(start, end, all_sources) ==
    LET kept(v) == date_in_range(start, end, v.date)
        ofSource(source) ==
            IF source.kind = "entry"
            THEN (IF kept(source) THEN <<source>> ELSE <<>>)
            ELSE IF source.kind = "group"
            THEN (IF FilterSeq(source.medias, kept) # <<>>
                  THEN <<[source EXCEPT
                            !.medias = FilterSeq(@, kept)]>>
                  ELSE <<>>)
            ELSE <<>>
        count(source) ==
            IF source.kind = "entry" THEN <<source>> ELSE source.medias
        filtered_sources == Flatten(MapSeq(all_sources, ofSource))
    IN  [filtered_sources |-> filtered_sources,
         total_filtered_videos |->
             Len(Flatten(MapSeq(filtered_sources, count)))]

(***************************************************************************)
(* process_url as a state machine                                          *)
(***************************************************************************)
VARIABLES
    script,     \* which script's process_url runs
    url,        \* the argument of process_url
    response,   \* what requests.get(url) yields
    engine,     \* "module": yt_dlp imports; "subprocess": it does not
    oracle,     \* what yt-dlp does with each URL it may be asked about
    seed,       \* string-hash seed of the running interpreter
    pc,         \* position in process_url
    potential,  \* potential_video_urls / embedded_videos
    idx,        \* position of the for loop in potential
    probes,     \* calls of is_downloadable_with_ytdlp so far, with results
    fetches,    \* calls of requests.get so far
    results,    \* extract_embedded_videos: the results dict
    ret,        \* extract_video_urls: the value returned
    raised,     \* exception that left process_url, "" if none
    earlier,    \* probes and outcome of the previous run on the same input
    caller,     \* what calls: a single process_url, a main(), a test driver
    inputs,     \* the URLs the caller goes through
    pos,        \* position of the caller's for loop in inputs
    calls,      \* positions process_url was called for, in call order
    all_results,        \* extract_embedded_videos main: all_results;
                        \* test_yt_dlp_urls: results
    downloadable_urls,  \* extract_video_urls main: downloadable_urls
    sample_input,       \* extract_video_urls main: sample_input
    futures,    \* test_urls_parallel: the futures submitted to the executor
    formatted_results,  \* test_yt_dlp_urls main: formatted_results
    downloader,         \* fast_downloader.batch_download: its locals
    date_filter         \* filter_videos_by_date: arguments, locals, files

process_vars == <<script, url, response, engine, oracle, seed, pc, potential,
                  idx, probes, fetches, results, ret, raised, earlier>>

main_vars == <<caller, inputs, pos, calls, all_results, downloadable_urls,
               sample_input, futures>>

tool_vars == <<formatted_results, downloader, date_filter>>

vars == <<process_vars, main_vars, tool_vars>>

Scripts == {"extract_video_urls", "extract_embedded_videos"}

\* formatted_results before the loop of format_results has run
NotFormatted ==
    [downloadable_urls |-> <<>>, not_downloadable_urls |-> <<>>,
     results_details |-> <<>>]
\* the other programs are not running
NoDownloader == [running |-> FALSE]
NoFilter == [running |-> FALSE]
Seeds == 0..MaxSeed

\* the candidates the script collects from the response, duplicates included
RawCandidates(sc, u, resp) ==
    IF resp.outcome # "ok" THEN <<>>
    ELSE IF sc = "extract_video_urls" THEN urls_potential_urls(u, resp.page)
    ELSE embedded_potential_urls(resp.url, resp.page)

Responses(u) ==
    {Response("ok", f, p) : f \in {u, Event1}, p \in Pages}
    \cup {Response(o, u, EmptyPage) : o \in FetchOutcomes \ {"ok"}}

\* yt-dlp cannot extract anything from a reference that is not a URL
Oracles(e, urls) ==
    {o \in [urls -> Outcomes(e)] :
        \A u \in urls : ~IsAbsolute(u) => o[u] \notin Extracts}

NewResults(u) ==
    [original_url |-> u, direct_downloadable |-> FALSE,
     embedded_videos_found |-> <<>>, downloadable_videos |-> <<>>,
     errors |-> <<>>]

NoRun == [probes |-> <<>>, ret |-> None, results |-> NewResults(None),
          seed |-> 0, finished |-> FALSE]

Init ==
    /\ script \in Scripts
    /\ url = Meeting
    /\ response \in Responses(url)
    /\ engine \in {"module", "subprocess"}
    /\ oracle \in Oracles(engine,
                          {url} \cup Range(RawCandidates(script, url, response)))
    /\ seed \in Seeds
    /\ pc = "direct"
    /\ potential = <<>>
    /\ idx = 0
    /\ probes = <<>>
    /\ fetches = 0
    /\ results = NewResults(url)
    /\ ret = None
    /\ raised = ""
    /\ earlier = NoRun
    /\ caller = "process_url"
    /\ inputs = <<url>>
    /\ pos = 1
    /\ calls = <<>>
    /\ all_results = <<>>
    /\ downloadable_urls = <<>>
    /\ sample_input = <<>>
    /\ futures = <<>>
    /\ formatted_results = NotFormatted
    /\ downloader = NoDownloader
    /\ date_filter = NoFilter

is_downloadable_with_ytdlp(u) ==
    IF script = "extract_video_urls"
    THEN urls_is_downloadable_with_ytdlp(engine, oracle[u])
    ELSE embedded_is_downloadable_with_ytdlp(engine, oracle[u])

\* a direct probe that never ends the resolution
after_direct_continue(r) == "extract"

\* where process_url goes after the probe of the original URL
after_direct(r) == IF r.downloadable THEN "done" ELSE "extract"

\* a loop that goes on after a candidate was accepted
after_candidate_continue(r) == "loop"

\* where process_url goes after the probe of a candidate
after_candidate(r) ==
    IF script = "extract_video_urls" /\ r.downloadable THEN "done" ELSE "loop"

\* a record of the call that drops the verdict
Probe_rejected(u, r) == [url |-> u, downloadable |-> FALSE, error |-> r.error]

\* the call is_downloadable_with_ytdlp(u) and what it returned
Probe(u, r) == [url |-> u, downloadable |-> r.downloadable, error |-> r.error]

\* process_url up to the first return: the probe of the original URL
DirectProbe ==
    /\ pc = "direct"
    /\ LET r == is_downloadable_with_ytdlp(url)
       IN  /\ probes' = Append(probes, Probe(url, r))
           /\ IF r.raised # ""
              THEN /\ pc' = "raised"
                   /\ raised' = r.raised
                   /\ UNCHANGED <<results, ret>>
              ELSE /\ raised' = raised
                   /\ pc' = after_direct(r)
                   /\ IF r.downloadable
                      THEN /\ ret' = IF script = "extract_video_urls"
                                     THEN url ELSE ret
                           /\ results' =
                                IF script = "extract_embedded_videos"
                                THEN [results EXCEPT
                                        !.direct_downloadable = TRUE,
                                        !.downloadable_videos =
                                            Append(@, url)]
                                ELSE results
                      ELSE /\ ret' = ret
                           /\ results' =
                                IF script = "extract_embedded_videos"
                                   /\ r.error # ""
                                THEN [results EXCEPT !.errors =
                                        Append(@, <<"Direct URL error", url,
                                                    r.error>>)]
                                ELSE results
    /\ UNCHANGED <<script, url, response, engine, oracle, seed, potential,
                   idx, fetches, earlier>>
    /\ UNCHANGED <<main_vars, tool_vars>>

\* the call that fetches the page and returns the candidate list
Extract ==
    /\ pc = "extract"
    /\ LET r == IF script = "extract_video_urls"
                THEN extract_video_url_from_webpage(seed, url, response)
                ELSE extract_video_urls_from_page(seed, url, response)
       IN  /\ fetches' = fetches + 1
           /\ IF r.raised # ""
              THEN /\ pc' = "raised"
                   /\ raised' = r.raised
                   /\ UNCHANGED <<potential, idx, results>>
              ELSE /\ pc' = "loop"
                   /\ raised' = raised
                   /\ potential' = r.value
                   /\ idx' = 1
                   /\ results' =
                        IF script = "extract_embedded_videos"
                        THEN [results EXCEPT !.embedded_videos_found = r.value]
                        ELSE results
    /\ UNCHANGED <<script, url, response, engine, oracle, seed, probes, ret,
                   earlier>>
    /\ UNCHANGED <<main_vars, tool_vars>>

\* one iteration of the for loop over the candidates
CandidateProbe ==
    /\ pc = "loop"
    /\ idx <= Len(potential)
    /\ LET video_url == potential[idx]
           r == is_downloadable_with_ytdlp(video_url)
       IN  /\ probes' = Append(probes, Probe(video_url, r))
           /\ IF r.raised # ""
              THEN /\ pc' = "raised"
                   /\ raised' = r.raised
                   /\ UNCHANGED <<idx, results, ret>>
              ELSE /\ raised' = raised
                   /\ pc' = after_candidate(r)
                   /\ idx' = idx + 1
                   /\ IF script = "extract_video_urls"
                      THEN /\ results' = results
                           /\ ret' = IF r.downloadable THEN video_url ELSE ret
                      ELSE /\ ret' = ret
                           /\ results' =
                                IF r.downloadable
                                THEN [results EXCEPT !.downloadable_videos =
                                        Append(@, video_url)]
                                ELSE IF r.error # ""
                                THEN [results EXCEPT !.errors =
                                        Append(@, <<"Embedded URL error",
                                                    video_url, r.error>>)]
                                ELSE results
    /\ UNCHANGED <<script, url, response, engine, oracle, seed, potential,
                   fetches, earlier>>
    /\ UNCHANGED <<main_vars, tool_vars>>

\* the for loop is exhausted: return None / return results
Exhausted ==
    /\ pc = "loop"
    /\ idx > Len(potential)
    /\ pc' = "done"
    /\ ret' = IF script = "extract_video_urls" THEN None ELSE ret
    /\ UNCHANGED <<script, url, response, engine, oracle, seed, potential,
                   idx, probes, fetches, results, raised, earlier>>
    /\ UNCHANGED <<main_vars, tool_vars>>

\* the script is started again on the same input, with the same page and the
\* same yt-dlp behaviour, in a new interpreter process
RunAgain ==
    /\ caller = "process_url"
    /\ pc = "done"
    /\ ~earlier.finished
    /\ earlier' = [probes |-> probes, ret |-> ret, results |-> results,
                   seed |-> seed, finished |-> TRUE]
    /\ seed' \in Seeds
    /\ pc' = "direct"
    /\ potential' = <<>>
    /\ idx' = 0
    /\ probes' = <<>>
    /\ fetches' = 0
    /\ results' = NewResults(url)
    /\ ret' = None
    /\ UNCHANGED <<script, url, response, engine, oracle, raised>>
    /\ UNCHANGED <<main_vars, tool_vars>>

Next ==
    \/ DirectProbe
    \/ Extract
    \/ CandidateProbe
    \/ Exhausted
    \/ RunAgain

Spec == Init /\ [][Next]_vars

(***************************************************************************)
(* The callers: main() of the two scripts and the two drivers of           *)
(* test_yt_dlp_urls.py                                                     *)
(***************************************************************************)
\* the module-level list of URLs to test
TEST_URLS ==
    <<Meeting, Event1,
      Ref("video.example.net", TRUE, <<"recorded", "1">>, ""),
      Ref("media.example.net", TRUE, <<"song", "2">>, ""),
      Ref("swagit.example.net", TRUE, <<"videos", "3", "download">>, ""),
      Ref("zoom.example.net", TRUE, <<"rec", "share", "4">>, ""),
      Ref("granicus.example.net", TRUE, <<"MediaPlayer">>, "php"),
      Ref("legistar.example.net", TRUE, <<"Video">>, "aspx"),
      Ref("civicclerk.example.net", TRUE, <<"event", "5", "media">>, "")>>

Callers == {"main", "test_urls_sequential", "test_urls_parallel"}

\* a media entry without url: media.get("url", "") is the empty string
MediaUrls(n) ==
    {m \in [1..n -> Range(TEST_URLS) \cup {EmptyAttr}] :
        \A i \in 1..n : m[i] \in {TEST_URLS[i], EmptyAttr}}

\* the lists a caller may go through
Inputs(sc) ==
    IF sc = "extract_video_urls"
    THEN UNION {MediaUrls(n) : n \in 1..MaxInputs}
    ELSE IF sc = "extract_embedded_videos"
    THEN {SubSeq(TEST_URLS, 1, n) : n \in 1..MaxInputs}
    ELSE {SubSeq(TEST_URLS, 1, n) : n \in 1..MaxTestUrls}

\* the pages and yt-dlp answers a main() meets on one of its inputs
MainPages ==
    {EmptyPage, Page(<<Video(MediaA, <<>>)>>, <<EmbedX>>, <<>>, <<>>, <<>>)}

MainResponses(u) ==
    {Response("ok", u, p) : p \in MainPages}
    \cup {Response("ConnectionError", u, EmptyPage)}

MainOutcomes(e) ==
    IF e = "module" THEN {"info", "DownloadError"} ELSE {"rc0", "rc1"}

Worlds(sc, e, u) ==
    UNION {{[response |-> r, oracle |-> o] :
               o \in {f \in Oracles(e, {u} \cup Range(RawCandidates(sc, u, r))) :
                         \A x \in DOMAIN f : f[x] \in MainOutcomes(e)}} :
           r \in MainResponses(u)}

NoOracle == [u \in {} |-> "info"]
NoFuture == [state |-> "new", result |-> Return(FALSE, "")]

InitMain ==
    /\ caller \in Callers
    /\ script \in IF caller = "main" THEN Scripts ELSE {"test_yt_dlp_urls"}
    /\ inputs \in Inputs(script)
    /\ engine \in {"module", "subprocess"}
    /\ seed \in Seeds
    /\ url = None
    /\ response = Response("ok", None, EmptyPage)
    /\ oracle = NoOracle
    /\ pc = "idle"
    /\ potential = <<>>
    /\ idx = 0
    /\ probes = <<>>
    /\ fetches = 0
    /\ results = NewResults(None)
    /\ ret = None
    /\ raised = ""
    /\ earlier = NoRun
    /\ pos = 1
    /\ calls = <<>>
    /\ all_results = <<>>
    /\ downloadable_urls = <<>>
    /\ sample_input = <<>>
    /\ futures = [i \in 1..Len(inputs) |-> NoFuture]
    /\ formatted_results = NotFormatted
    /\ downloader = NoDownloader
    /\ date_filter = NoFilter

\* a loop that stops at the first input that was not resolved
for_next_break(position, resolved) ==
    IF resolved THEN position + 1 ELSE Len(inputs) + 1

\* the for loop of main() steps to the next input
for_next(position, resolved) == position + 1

\* extract_video_urls main: `if not url: continue`
MainSkip ==
    /\ caller = "main"
    /\ pc = "idle"
    /\ pos <= Len(inputs)
    /\ script = "extract_video_urls"
    /\ ~Truthy(inputs[pos])
    /\ pos' = pos + 1
    /\ UNCHANGED <<script, url, response, engine, oracle, seed, pc, potential,
                   idx, probes, fetches, results, ret, raised, earlier,
                   caller, inputs, calls, all_results, downloadable_urls,
                   sample_input, futures, tool_vars>>

\* one iteration of main()'s loop up to the call of process_url
MainCall ==
    /\ caller = "main"
    /\ pc = "idle"
    /\ pos <= Len(inputs)
    /\ script = "extract_video_urls" => Truthy(inputs[pos])
    /\ sample_input' =
          IF script = "extract_video_urls"
          THEN Append(sample_input, [input |-> pos, url |-> inputs[pos]])
          ELSE sample_input
    /\ calls' = Append(calls, pos)
    /\ url' = inputs[pos]
    /\ \E w \in Worlds(script, engine, inputs[pos]) :
          /\ response' = w.response
          /\ oracle' = w.oracle
    /\ pc' = "direct"
    /\ potential' = <<>>
    /\ idx' = 0
    /\ probes' = <<>>
    /\ fetches' = 0
    /\ results' = NewResults(inputs[pos])
    /\ ret' = None
    /\ UNCHANGED <<script, engine, seed, raised, earlier, caller, inputs, pos,
                   all_results, downloadable_urls, futures, tool_vars>>

\* process_url has returned: the rest of the iteration
MainReturn ==
    /\ caller = "main"
    /\ pc = "done"
    /\ IF script = "extract_video_urls"
       THEN /\ downloadable_urls' =
                  IF Truthy(ret)
                  THEN Append(downloadable_urls, [input |-> pos, url |-> ret])
                  ELSE downloadable_urls
            /\ pos' = for_next(pos, Truthy(ret))
            /\ all_results' = all_results
       ELSE /\ all_results' =
                  Append(all_results, [input |-> pos, value |-> results])
            /\ pos' = for_next(pos, results.downloadable_videos # <<>>)
            /\ downloadable_urls' = downloadable_urls
    /\ pc' = "idle"
    /\ UNCHANGED <<script, url, response, engine, oracle, seed, potential,
                   idx, probes, fetches, results, ret, raised, earlier,
                   caller, inputs, calls, sample_input, futures,
                   tool_vars>>

\* test_urls_sequential: one iteration of its loop
SequentialStep ==
    /\ caller = "test_urls_sequential"
    /\ pc = "idle"
    /\ pos <= Len(inputs)
    /\ \E o \in ModuleOutcomes :
          LET r == test_is_downloadable_with_ytdlp(engine, o)
          IN  IF r.raised # ""
              THEN /\ pc' = "raised"
                   /\ raised' = r.raised
                   /\ UNCHANGED <<all_results, pos>>
              ELSE /\ all_results' =
                         Append(all_results,
                                [input |-> pos,
                                 value |-> Probe(inputs[pos], r)])
                   /\ pos' = pos + 1
                   /\ UNCHANGED <<pc, raised>>
    /\ UNCHANGED <<script, url, response, engine, oracle, seed, potential,
                   idx, probes, fetches, results, ret, earlier, caller,
                   inputs, calls, downloadable_urls, sample_input, futures,
                   tool_vars>>

\* a pool with a thread for every URL
max_workers_unbounded(urls) == Len(urls)

\* ThreadPoolExecutor(max_workers=min(4, len(TEST_URLS)))
max_workers(urls) == IF Len(urls) < 4 THEN Len(urls) ELSE 4

Running == {i \in DOMAIN futures : futures[i].state = "running"}

\* test_urls_parallel: executor.submit for the next URL
Submit ==
    /\ caller = "test_urls_parallel"
    /\ pc = "idle"
    /\ pos <= Len(inputs)
    /\ futures' = [futures EXCEPT ![pos].state = "pending"]
    /\ pos' = pos + 1
    /\ UNCHANGED <<script, url, response, engine, oracle, seed, pc, potential,
                   idx, probes, fetches, results, ret, raised, earlier,
                   caller, inputs, calls, all_results, downloadable_urls,
                   sample_input, tool_vars>>

\* a free worker thread takes the oldest work item of the queue
Start(i) ==
    /\ caller = "test_urls_parallel"
    /\ futures[i].state = "pending"
    /\ \A j \in 1..(i - 1) : futures[j].state # "pending"
    /\ Cardinality(Running) < max_workers(inputs)
    /\ futures' = [futures EXCEPT ![i].state = "running"]
    /\ UNCHANGED <<script, url, response, engine, oracle, seed, pc, potential,
                   idx, probes, fetches, results, ret, raised, earlier,
                   caller, inputs, pos, calls, all_results,
                   downloadable_urls, sample_input, tool_vars>>

\* the worker's call of is_downloadable_with_ytdlp returns
Finish(i) ==
    /\ caller = "test_urls_parallel"
    /\ futures[i].state = "running"
    /\ \E o \in ModuleOutcomes :
          futures' = [futures EXCEPT
                        ![i] = [state |-> "finished",
                                result |->
                                  test_is_downloadable_with_ytdlp(engine, o)]]
    /\ UNCHANGED <<script, url, response, engine, oracle, seed, pc, potential,
                   idx, probes, fetches, results, ret, raised, earlier,
                   caller, inputs, pos, calls, all_results,
                   downloadable_urls, sample_input, tool_vars>>

\* as_completed hands over a finished future, its result is appended
Yield(i) ==
    /\ caller = "test_urls_parallel"
    /\ pc = "idle"
    /\ pos > Len(inputs)
    /\ futures[i].state = "finished"
    /\ futures' = [futures EXCEPT ![i].state = "yielded"]
    /\ IF futures[i].result.raised # ""
       THEN /\ pc' = "raised"
            /\ raised' = futures[i].result.raised
            /\ UNCHANGED all_results
       ELSE /\ all_results' =
                  Append(all_results,
                         [input |-> i,
                          value |-> Probe(inputs[i], futures[i].result)])
            /\ UNCHANGED <<pc, raised>>
    /\ UNCHANGED <<script, url, response, engine, oracle, seed, potential,
                   idx, probes, fetches, results, ret, earlier, caller,
                   inputs, pos, calls, downloadable_urls, sample_input,
                   tool_vars>>

\* test_yt_dlp_urls main: format_results(results) once the driver returned
FormatResults ==
    /\ caller \in {"test_urls_sequential", "test_urls_parallel"}
    /\ pc = "idle"
    /\ pos > Len(inputs)
    /\ Len(all_results) = Len(inputs)
    /\ formatted_results = NotFormatted
    /\ formatted_results' =
          format_results(MapSeq(all_results, LAMBDA e : e.value))
    /\ UNCHANGED <<process_vars, main_vars, downloader, date_filter>>

NextMain ==
    \/ MainSkip
    \/ MainCall
    \/ DirectProbe
    \/ Extract
    \/ CandidateProbe
    \/ Exhausted
    \/ MainReturn
    \/ SequentialStep
    \/ Submit
    \/ \E i \in DOMAIN futures : Start(i)
    \/ \E i \in DOMAIN futures : Finish(i)
    \/ \E i \in DOMAIN futures : Yield(i)
    \/ FormatResults

SpecMain == InitMain /\ [][NextMain]_vars

(***************************************************************************)
(* fast_downloader.py: batch_download                                      *)
(***************************************************************************)
\* what yt-dlp does with a download: the file arrives after some seconds
\* with some bytes, or an exception is raised
DownloadOutcomes ==
    {[kind |-> "ok", download_time |-> t, file_size |-> z] :
        t \in {1, 2}, z \in {0, 5}}
    \cup {[kind |-> k, download_time |-> 0, file_size |-> 0] :
            k \in {"DownloadError", "ImportError"}}

\* a download_video without its try/except
download_video_unguarded(u, use_aria2c, outcome) ==
    IF outcome.kind = "ok"
    THEN [raised |-> "", url |-> u, success |-> TRUE,
          download_time |-> outcome.download_time,
          file_size |-> outcome.file_size, used_aria2c |-> use_aria2c]
    ELSE [raised |-> outcome.kind, url |-> u, success |-> FALSE,
          error |-> "", used_aria2c |-> use_aria2c]

\* fast_downloader.py: download_video
download_video(u, use_aria2c, outcome) ==
    LET body ==
            IF outcome.kind = "ok"
            THEN [raised |-> "", url |-> u, success |-> TRUE,
                  download_time |-> outcome.download_time,
                  file_size |-> outcome.file_size,
                  used_aria2c |-> use_aria2c]
            ELSE [raised |-> outcome.kind]
    IN  IF body.raised # "" /\ IsInstance(body.raised, "Exception")
        THEN [raised |-> "", url |-> u, success |-> FALSE,
              error |-> body.raised, used_aria2c |-> use_aria2c]
        ELSE body

\* the values of the variables of the other programs while one runs alone
Standalone(c, sc) ==
    /\ caller = c
    /\ script = sc
    /\ inputs = <<>>
    /\ engine = "module"
    /\ seed = 0
    /\ url = None
    /\ response = Response("ok", None, EmptyPage)
    /\ oracle = NoOracle
    /\ pc = "idle"
    /\ potential = <<>>
    /\ idx = 0
    /\ probes = <<>>
    /\ fetches = 0
    /\ results = NewResults(None)
    /\ ret = None
    /\ raised = ""
    /\ earlier = NoRun
    /\ pos = 1
    /\ calls = <<>>
    /\ all_results = <<>>
    /\ downloadable_urls = <<>>
    /\ sample_input = <<>>
    /\ futures = <<>>
    /\ formatted_results = NotFormatted

InitDownload ==
    /\ Standalone("batch_download", "fast_downloader")
    /\ date_filter = NoFilter
    /\ \E n \in 1..MaxInputs, a \in BOOLEAN :
          downloader =
              [running |-> TRUE, urls |-> SubSeq(TEST_URLS, 1, n),
               use_aria2c |-> a, i |-> 0, results |-> <<>>,
               successful |-> 0, failed |-> 0, total_time |-> 0,
               total_size |-> 0, raised |-> "", returned |-> FALSE,
               saved |-> <<>>]

\* one iteration of the loop of batch_download
Download ==
    /\ downloader.running
    /\ downloader.raised = ""
    /\ downloader.i < Len(downloader.urls)
    /\ \E outcome \in DownloadOutcomes :
          LET i == downloader.i + 1
              result == download_video(downloader.urls[i],
                                       downloader.use_aria2c, outcome)
          IN  downloader' =
                IF result.raised # ""
                THEN [downloader EXCEPT !.i = i, !.raised = result.raised]
                ELSE IF result.success
                THEN [downloader EXCEPT
                        !.i = i,
                        !.results = Append(@, result),
                        !.successful = @ + 1,
                        !.total_time = @ + result.download_time,
                        !.total_size = @ + result.file_size]
                ELSE [downloader EXCEPT
                        !.i = i,
                        !.results = Append(@, result),
                        !.failed = @ + 1]
    /\ UNCHANGED <<process_vars, main_vars, formatted_results, date_filter>>

\* after the loop: the statistics, download_results.json, return results
Summary ==
    /\ downloader.running
    /\ downloader.raised = ""
    /\ downloader.i = Len(downloader.urls)
    /\ ~downloader.returned
    /\ \E written \in BOOLEAN :
          downloader' =
              IF written
              THEN [downloader EXCEPT
                      !.returned = TRUE,
                      !.saved =
                          <<[urls_total |-> Len(downloader.urls),
                             successful |-> downloader.successful,
                             failed |-> downloader.failed,
                             total_time |-> downloader.total_time,
                             total_size |-> downloader.total_size,
                             average_time |->
                                 IF downloader.successful > 0
                                 THEN downloader.total_time
                                          \div downloader.successful
                                 ELSE 0,
                             detailed_results |-> downloader.results]>>]
              ELSE [downloader EXCEPT !.raised = "OSError"]
    /\ UNCHANGED <<process_vars, main_vars, formatted_results, date_filter>>

NextDownload ==
    \/ Download
    \/ Summary

SpecDownload == InitDownload /\ [][NextDownload]_vars

(***************************************************************************)
(* filter_videos_by_date.py: filter_videos_by_date                         *)
(***************************************************************************)
\* START_DATE and END_DATE of main.py, and an argument in another format
START_DATE == DateText(<<2, 0, 2, 4>>, <<1, 1>>, <<0, 1>>)
END_DATE == DateText(<<2, 0, 2, 4>>, <<1, 2>>, <<3, 1>>)
DateArguments ==
    {START_DATE, END_DATE, DateText(<<1, 1>>, <<0, 1>>, <<2, 0, 2, 4>>)}

\* the dates found in the scraped entries: "Unknown", a number,
\* "025-52-82", "2024-11-31", and two days of the calendar
VideoDates ==
    {Unknown, NotAString,
     DateText(<<0, 2, 5>>, <<5, 2>>, <<8, 2>>),
     DateText(<<2, 0, 2, 4>>, <<1, 1>>, <<3, 1>>),
     START_DATE, END_DATE}

\* all_videos.json written entry by entry: a direct entry with url and date,
\* a media that opens a source with base_url and medias, a media of the
\* source before it, a source of another form
Entries ==
    [shape : {"entry", "first_media", "media"}, date : VideoDates]
    \cup {[shape |-> "other", date |-> Unknown]}

\* the list json.load returns for the entries
Sources(entries) ==
    LET G[i \in 0..Len(entries)] ==
            IF i = 0 THEN <<>>
            ELSE LET e == entries[i]
                     sofar == G[i - 1]
                     video == [id |-> i, date |-> e.date]
                 IN  IF e.shape = "entry"
                     THEN Append(sofar, [kind |-> "entry", id |-> i,
                                         date |-> e.date])
                     ELSE IF e.shape = "other"
                     THEN Append(sofar, [kind |-> "other"])
                     ELSE IF /\ e.shape = "media"
                             /\ sofar # <<>>
                             /\ sofar[Len(sofar)].kind = "group"
                     THEN [sofar EXCEPT ![Len(sofar)].medias =
                              Append(@, video)]
                     ELSE Append(sofar, [kind |-> "group", base_url |-> i,
                                         medias |-> <<video>>])
    IN  G[Len(entries)]

\* what open(input_file) and json.load do
ReadOutcomes ==
    {"ok", "FileNotFoundError", "JSONDecodeError", "PermissionError"}

InputFiles ==
    {[outcome |-> "ok", all_sources |-> Sources(es)] :
        es \in UNION {[1..n -> Entries] : n \in 0..MaxEntries}}
    \cup {[outcome |-> o, all_sources |-> <<>>] : o \in ReadOutcomes \ {"ok"}}

\* the output file: absent, or left by an earlier run
File(content) == [exists |-> TRUE, complete |-> TRUE, content |-> content]
NoFile == [exists |-> FALSE, complete |-> FALSE, content |-> <<>>]
Truncated == [exists |-> TRUE, complete |-> FALSE, content |-> <<>>]
EarlierOutput ==
    File(<<[kind |-> "entry", id |-> 0, date |-> START_DATE]>>)

InitFilter ==
    /\ Standalone("main", "filter_videos_by_date")
    /\ downloader = NoDownloader
    /\ \E s \in DateArguments, e \in DateArguments, f \in InputFiles,
          o \in {NoFile, EarlierOutput} :
          date_filter =
              [running |-> TRUE, pc |-> "start",
               start_date |-> s, end_date |-> e,
               input_file |-> f, output_file |-> o, before |-> o,
               start |-> <<>>, end |-> <<>>, all_sources |-> <<>>,
               filtered_sources |-> <<>>, total_filtered_videos |-> 0,
               dumped |-> <<>>, returned |-> <<>>, raised |-> ""]

\* start and end are parsed; ValueError: return 0
ParseDates ==
    /\ date_filter.running
    /\ date_filter.pc = "start"
    /\ LET s == strptime(date_filter.start_date)
           e == strptime(date_filter.end_date)
       IN  date_filter' =
             IF s.raised # "" \/ e.raised # ""
             THEN [date_filter EXCEPT !.pc = "returned", !.returned = <<0>>]
             ELSE [date_filter EXCEPT !.pc = "read",
                                      !.start = s.value, !.end = e.value]
    /\ UNCHANGED <<process_vars, main_vars, formatted_results, downloader>>

\* the input file is opened and loaded
ReadInput ==
    /\ date_filter.running
    /\ date_filter.pc = "read"
    /\ LET o == date_filter.input_file.outcome
       IN  date_filter' =
             IF o = "ok"
             THEN [date_filter EXCEPT
                     !.pc = "filter",
                     !.all_sources = date_filter.input_file.all_sources]
             ELSE IF o \in {"FileNotFoundError", "JSONDecodeError"}
             THEN [date_filter EXCEPT !.pc = "returned", !.returned = <<0>>]
             ELSE [date_filter EXCEPT !.pc = "raised", !.raised = o]
    /\ UNCHANGED <<process_vars, main_vars, formatted_results, downloader>>

\* the loop over all_sources
Filter ==
    /\ date_filter.running
    /\ date_filter.pc = "filter"
    /\ LET r == filter_sources(date_filter.start, date_filter.end,
                               date_filter.all_sources)
       IN  date_filter' =
             [date_filter EXCEPT
                !.pc = "save",
                !.filtered_sources = r.filtered_sources,
                !.total_filtered_videos = r.total_filtered_videos]
    /\ UNCHANGED <<process_vars, main_vars, formatted_results, downloader>>

\* a version that saves the list whatever its length
save_always(total_filtered_videos) == TRUE

\* if total_filtered_videos > 0: the output file is written
save_needed(total_filtered_videos) == total_filtered_videos > 0

\* the file is saved, or the error of saving is printed; return the count
Save ==
    /\ date_filter.running
    /\ date_filter.pc = "save"
    /\ \E w \in {"ok", "open_failed", "dump_failed"} :
          date_filter' =
            IF ~save_needed(date_filter.total_filtered_videos)
            THEN [date_filter EXCEPT
                    !.pc = "returned",
                    !.returned = <<date_filter.total_filtered_videos>>]
            ELSE [date_filter EXCEPT
                    !.pc = "returned",
                    !.returned = <<date_filter.total_filtered_videos>>,
                    !.output_file =
                        IF w = "ok" THEN File(date_filter.filtered_sources)
                        ELSE IF w = "dump_failed" THEN Truncated
                        ELSE @,
                    !.dumped =
                        IF w = "ok" THEN <<date_filter.filtered_sources>>
                        ELSE @]
    /\ UNCHANGED <<process_vars, main_vars, formatted_results, downloader>>

NextFilter ==
    \/ ParseDates
    \/ ReadInput
    \/ Filter
    \/ Save

SpecFilter == InitFilter /\ [][NextFilter]_vars

\* process_url waits for a call to return: a probe, the page fetch with the
\* extraction, or the test that ends the loop
Pending == pc \in {"direct", "extract", "loop"}

\* the call returns and process_url moves on
Returns ==
    /\ Pending
    /\ pc' \in {"extract", "loop", "done", "raised"}
    /\ idx' \in 0..(Len(potential) + 1)

\* every call of yt-dlp and the page fetch return: no step of process_url is
\* put off for ever
SpecLive == Spec /\ WF_<<pc, idx>>(Returns)

(***************************************************************************)
(* Vocabulary of the properties                                            *)
(***************************************************************************)
Raw == RawCandidates(script, url, response)
UniqueCandidates == Range(Raw)

\* position of the first occurrence of x in s
FirstIndex(s, x) == CHOOSE i \in 1..Len(s) : s[i] = x /\ \A j \in 1..(i - 1) : s[j] # x

\* the oracle, as the running script sees it, accepts u
Accepts(u) == is_downloadable_with_ytdlp(u).downloadable

Done == pc = "done"
DirectAccepted == Len(probes) >= 1 /\ probes[1].downloadable
DirectRejected == Len(probes) >= 1 /\ ~probes[1].downloadable
CandidateProbes == IF probes = <<>> THEN <<>> ELSE Tail(probes)
ProbedUrls == MapSeq(CandidateProbes, LAMBDA q : q.url)
AcceptedProbes == {i \in 1..Len(probes) : probes[i].downloadable}

Unresolved ==
    IF script = "extract_video_urls" THEN ret = None
    ELSE /\ results.downloadable_videos = <<>>
         /\ ~results.direct_downloadable
         /\ results.original_url = url

NoDuplicates(s) == \A i, j \in 1..Len(s) : s[i] = s[j] => i = j

(***************************************************************************)
(* C1  Direct-probe short-circuit: when the oracle accepts the input URL   *)
(* on the direct probe, process_url is finished with that URL as its       *)
(* result, the page was not fetched and no candidate was probed.           *)
(***************************************************************************)
C1_DirectShortCircuit ==
    DirectAccepted =>
        /\ Done
        /\ Len(probes) = 1
        /\ probes[1].url = url
        /\ fetches = 0
        /\ potential = <<>>
        /\ script = "extract_video_urls" => ret = url
        /\ script = "extract_embedded_videos" =>
              /\ results.downloadable_videos = <<url>>
              /\ results.direct_downloadable
              /\ results.embedded_videos_found = <<>>

\* a directly downloadable input whose page has candidates to offer
C1_Witness ==
    /\ Done
    /\ DirectAccepted
    /\ response.outcome = "ok"
    /\ Len(Raw) >= 2

C4_ProbeOrderFollowsPrecedence ==
    /\ \A i, j \in 1..Len(potential) :
          i < j => FirstIndex(Raw, potential[i]) < FirstIndex(Raw, potential[j])
    /\ \A i, j \in 1..Len(ProbedUrls) :
          i < j => FirstIndex(Raw, ProbedUrls[i]) < FirstIndex(Raw, ProbedUrls[j])

(***************************************************************************)
(* C5  The resolved URL is the highest-precedence accepted candidate: if   *)
(* the direct probe fails and the oracle accepts some candidate,           *)
(* process_url of extract_video_urls returns the accepted candidate that   *)
(* appears first in the extractor's output, after probing exactly the      *)
(* distinct candidates that precede it, in that order, all rejected.       *)
(***************************************************************************)
C5_HighestPrecedenceWins ==
    (/\ script = "extract_video_urls"
     /\ Done
     /\ DirectRejected
     /\ \E u \in UniqueCandidates : Accepts(u)) =>
        LET k == CHOOSE i \in 1..Len(Raw) :
                    /\ Accepts(Raw[i])
                    /\ \A j \in 1..(i - 1) : ~Accepts(Raw[j])
            before == FilterSeq([i \in 1..(k - 1) |-> i],
                                LAMBDA i : FirstIndex(Raw, Raw[i]) = i)
        IN  /\ ret = Raw[k]
            /\ ProbedUrls = MapSeq(before, LAMBDA i : Raw[i]) \o <<Raw[k]>>
            /\ \A i \in 1..(Len(CandidateProbes) - 1) :
                  ~CandidateProbes[i].downloadable

(***************************************************************************)
(* C6  Determinism: a second run of process_url on the same input, with    *)
(* the same page content and the same oracle answers, probes the same      *)
(* URLs in the same order, extracts the same candidate list and ends with  *)
(* the same result.                                                        *)
(***************************************************************************)
C6_RunsAgree ==
    (Done /\ earlier.finished) =>
        /\ probes = earlier.probes
        /\ ret = earlier.ret
        /\ results = earlier.results

(***************************************************************************)
(* C7  Exhaustion: if the direct probe fails and the oracle rejects every  *)
(* candidate, each distinct candidate is probed exactly once, every probe  *)
(* outcome is not-downloadable, and the resolution ends unresolved.        *)
(***************************************************************************)
C7_Exhaustion ==
    (/\ Done
     /\ DirectRejected
     /\ \A u \in UniqueCandidates : ~Accepts(u)) =>
        /\ Len(ProbedUrls) = Cardinality(UniqueCandidates)
        /\ Range(ProbedUrls) = UniqueCandidates
        /\ \A i \in 1..Len(probes) : ~probes[i].downloadable
        /\ Unresolved

\* every candidate of a page that names some candidate twice was rejected
C7_Witness ==
    /\ Done
    /\ DirectRejected
    /\ Cardinality(UniqueCandidates) >= 2
    /\ Len(Raw) > Cardinality(UniqueCandidates)
    /\ \A u \in UniqueCandidates : ~Accepts(u)
    /\ Len(ProbedUrls) = Cardinality(UniqueCandidates)

\* the page has nothing any of the five strategies looks for: no media or
\* iframe source, no script data, no file name in its text, no link with a
\* keyword in its address or its text
NoMatch(page) ==
    /\ \A i \in 1..Len(page.videos) :
          /\ page.videos[i].src \in {None, EmptyAttr}
          /\ Range(page.videos[i].sources) \subseteq {None, EmptyAttr}
    /\ Range(page.iframes) \subseteq {None, EmptyAttr}
    /\ \A i \in 1..Len(page.scripts) : page.scripts[i].pairs = <<>>
    /\ page.literals = <<>>
    /\ \A i \in 1..Len(page.anchors) :
          /\ page.anchors[i].text = {}
          /\ HrefWords(page.anchors[i].href)
                \cap {"download", "media", "video"} = {}
          /\ page.anchors[i].href.ext = ""

(***************************************************************************)
(* C8  No candidates: when the direct probe fails and the fetched page     *)
(* matches none of the five strategies, the resolution ends unresolved     *)
(* after exactly one oracle probe, the direct one, and one page fetch.     *)
(***************************************************************************)
C8_NoCandidates ==
    (/\ DirectRejected
     /\ pc \in {"loop", "done"}
     /\ response.outcome = "ok"
     /\ NoMatch(response.page)) =>
        /\ potential = <<>>
        /\ Len(probes) = 1
        /\ probes[1].url = url
        /\ fetches = 1
        /\ Done => Unresolved

\* a fetched page with tags but nothing to extract, resolution finished
C8_Witness ==
    /\ Done
    /\ DirectRejected
    /\ response.outcome = "ok"
    /\ NoMatch(response.page)
    /\ response.page # EmptyPage
    /\ fetches = 1

\* the result names the exception the page fetch raised
FetchErrorCarried ==
    /\ script = "extract_embedded_videos"
    /\ \E i \in 1..Len(results.errors) : results.errors[i][3] = response.outcome

(***************************************************************************)
(* C9  Page-fetch failure is a distinct recorded outcome: when the direct  *)
(* probe fails and the page fetch fails, the resolution ends unresolved    *)
(* with no candidate probe and its result carries the fetch error.         *)
(***************************************************************************)
C9_FetchFailureRecorded ==
    (Done /\ DirectRejected /\ response.outcome # "ok") =>
        /\ Len(probes) = 1
        /\ Unresolved
        /\ FetchErrorCarried

(***************************************************************************)
(* C10  No exception escapes a resolution: whatever way the oracle fails   *)
(* (exception, timeout, missing module, non-zero exit) and whether or not  *)
(* the page fetch fails, process_url returns normally; when no probe       *)
(* succeeded its result is a well-formed unresolved result.                *)
(***************************************************************************)
C10_NoExceptionEscapes ==
    /\ pc # "raised"
    /\ raised = ""
    /\ (Done /\ AcceptedProbes = {}) => Unresolved

\* the oracle raised on the direct probe, the page fetch failed, and
\* process_url returned all the same
C10_Witness ==
    /\ Done
    /\ oracle[url] \in {"DownloadError", "TimeoutExpired", "FileNotFoundError"}
    /\ response.outcome # "ok"
    /\ fetches = 1
    /\ Unresolved

(***************************************************************************)
(* C11  No retry and no re-entry of the direct probe: within one           *)
(* resolution the oracle is called at most once for any URL; after the     *)
(* direct probe of the original URL has failed, the original URL is not    *)
(* probed again, also when it is among the extracted candidates.           *)
(***************************************************************************)
C11_NoUrlProbedTwice ==
    /\ \A i, j \in 1..Len(probes) : probes[i].url = probes[j].url => i = j
    /\ \A i \in 2..Len(probes) : probes[i].url # url

\* the page without the anchors that have no href attribute
WithoutBareAnchors(page) ==
    [page EXCEPT !.anchors = FilterSeq(@, LAMBDA a : a.href # None)]

(***************************************************************************)
(* C12  An anchor element with no href contributes no candidate: the       *)
(* candidate list of a page is the one the page would give without its     *)
(* href-less anchors, whatever their text, and extraction raises nothing.  *)
(***************************************************************************)
C12_BareAnchorContributesNothing ==
    (pc \in {"loop", "done"} /\ fetches = 1 /\ response.outcome = "ok") =>
        /\ raised = ""
        /\ Range(potential) =
              Range(RawCandidates(script, url,
                        [response EXCEPT
                            !.page = WithoutBareAnchors(response.page)]))

\* the absolute form of a candidate, resolved against the fetched page's URL
Normalized(u) == urljoin(response.url, u)

(***************************************************************************)
(* C13  Deduplication uniqueness: the candidate list returned by the       *)
(* extractor has no two entries with the same normalized (absolute) URL,   *)
(* also when several strategies, or both rules of one anchor, find it.     *)
(***************************************************************************)
C13_NoTwoEntriesSameUrl ==
    (pc \in {"loop", "done"} /\ fetches = 1) =>
        \A i, j \in 1..Len(potential) :
            Normalized(potential[i]) = Normalized(potential[j]) => i = j

(***************************************************************************)
(* C14  Deduplication idempotence: list(set(...)) applied to its own       *)
(* output gives the identical sequence, nothing removed and nothing        *)
(* reordered.                                                              *)
(***************************************************************************)
C14_DedupIdempotent ==
    (pc \in {"loop", "done"} /\ fetches = 1) =>
        list_set(seed, potential) = potential

\* every reference written in the page: attribute values, script values and
\* file names in the text
RawRefs(page) ==
    {l.value : l \in Range(PageText(page))} \ {None, EmptyAttr}

(***************************************************************************)
(* C15  Every candidate handed to the oracle is an absolute URL, obtained  *)
(* by resolving a reference of the page against the final URL of the       *)
(* fetched page (after redirects), for every strategy, iframes included.   *)
(***************************************************************************)
C15_CandidatesAbsolute ==
    \A i \in 2..Len(probes) :
        /\ IsAbsolute(probes[i].url)
        /\ probes[i].url \in
              {urljoin(response.url, r) : r \in RawRefs(response.page)}

\* results["errors"] holds a record of the failed probe of candidate u
FailureRecorded(u) ==
    \E k \in 1..Len(results.errors) :
        results.errors[k][1] = "Embedded URL error" /\ results.errors[k][2] = u

(***************************************************************************)
(* C16  Every failed candidate probe is recorded and is not fatal: for     *)
(* each candidate the oracle rejects the result holds a record of that     *)
(* failure, and the loop goes on to the next candidate.                    *)
(***************************************************************************)
C16_FailedProbeRecorded ==
    script = "extract_embedded_videos" =>
        /\ \A i \in 2..Len(probes) :
              ~probes[i].downloadable => FailureRecorded(probes[i].url)
        /\ pc = "done" /\ ~DirectAccepted => Len(probes) = 1 + Len(potential)

\* the caller has gone through all its inputs
MainDone == caller = "main" /\ pc = "idle" /\ pos > Len(inputs)
SequentialDone == caller = "test_urls_sequential" /\ pos > Len(inputs)
ParallelDone ==
    /\ caller = "test_urls_parallel"
    /\ pos > Len(inputs)
    /\ \A i \in DOMAIN futures : futures[i].state = "yielded"
BatchDone == MainDone \/ SequentialDone \/ ParallelDone

\* the positions up to n that hold a URL, in input order
InputUrls(n) ==
    FilterSeq([i \in 1..n |-> i],
              LAMBDA i : script = "extract_video_urls" => Truthy(inputs[i]))

\* the input each entry of an output list belongs to
Tags(out) == MapSeq(out, LAMBDA e : e.input)

(***************************************************************************)
(* C17  Output order matches input order: the i-th result returned by      *)
(* test_urls_sequential and by test_urls_parallel belongs to the i-th      *)
(* input URL, whatever the order in which the workers complete.            *)
(***************************************************************************)
C17_OutputOrderMatchesInput ==
    caller \in {"test_urls_sequential", "test_urls_parallel"} =>
        \A k \in 1..Len(all_results) : all_results[k].input = k

\* the list a caller returns or writes as its output
Output ==
    IF caller = "main" /\ script = "extract_video_urls"
    THEN downloadable_urls ELSE all_results

(***************************************************************************)
(* C18 as stated  One result per input: when the batch is over the output  *)
(* holds exactly one result for each input URL, resolved or not.           *)
(***************************************************************************)
C18_OneResultPerInput ==
    BatchDone =>
        \A i \in Range(InputUrls(Len(inputs))) :
            Cardinality({k \in 1..Len(Output) : Output[k].input = i}) = 1

(***************************************************************************)
(* C18 amended  When the batch is over, the outputs of test_urls_parallel, *)
(* test_urls_sequential and extract_embedded_videos main hold exactly one  *)
(* result for each input URL; extract_video_urls main lists every          *)
(* non-empty media URL once in sample_input, in input order, and writes    *)
(* to downloadable_urls, in input order, one URL for each input that was   *)
(* resolved and nothing for an input that was not.                         *)
(***************************************************************************)
C18_OneResultPerProcessedInput ==
    /\ BatchDone =>
          IF caller = "main" /\ script = "extract_video_urls"
          THEN /\ Tags(sample_input) = InputUrls(Len(inputs))
               /\ Range(Tags(downloadable_urls)) \subseteq
                     Range(Tags(sample_input))
               /\ \A j, k \in 1..Len(downloadable_urls) :
                     j < k =>
                       downloadable_urls[j].input < downloadable_urls[k].input
          ELSE /\ Len(all_results) = Len(inputs)
               /\ Range(Tags(all_results)) = 1..Len(inputs)
    \* after each return of process_url
    /\ (/\ caller = "main" /\ script = "extract_video_urls"
        /\ pc = "idle" /\ calls # <<>>) =>
          (calls[Len(calls)] \in Range(Tags(downloadable_urls))
              <=> ret # None)

C18_Witness ==
    /\ MainDone
    /\ script = "extract_video_urls"
    /\ Len(sample_input) >= 2
    /\ Len(downloadable_urls) = 1
    /\ ret = None

(***************************************************************************)
(* C19  Every resolution terminates: process_url reaches its outcome       *)
(* after the direct probe, at most one fetch of the page and at most one   *)
(* probe per unique candidate, and once the outcome is reached nothing     *)
(* more is probed or fetched for that input.                               *)
(***************************************************************************)
C19_Terminates ==
    /\ [](/\ fetches <= 1
          /\ Len(probes) <= 1 + Cardinality(UniqueCandidates)
          /\ Done => (Len(probes) >= 1 /\ probes[1].url = url))
    /\ [][Done => (Len(probes') <= Len(probes) /\ fetches' <= fetches)]_vars
    /\ (pc = "direct") ~> Done

C19_Witness ==
    /\ Done
    /\ earlier.finished
    /\ fetches = 1
    /\ Len(probes) >= 3
    /\ Len(probes) = 1 + Cardinality(UniqueCandidates)

(***************************************************************************)
(* C20  A failed resolution does not stop the batch: main() calls          *)
(* process_url exactly once for every input URL, in input order, whatever  *)
(* the outcome of the earlier inputs.                                      *)
(***************************************************************************)
C20_EveryInputProcessedOnce ==
    caller = "main" =>
        calls = InputUrls(IF pc = "idle" THEN pos - 1 ELSE pos)

C20_Witness ==
    /\ MainDone
    /\ script = "extract_embedded_videos"
    /\ Len(calls) >= 2
    /\ all_results[1].value.downloadable_videos = <<>>
    /\ all_results[1].value.embedded_videos_found = <<>>
    /\ calls[Len(calls)] = Len(inputs)

\* the probes in which yt-dlp ran into the timeout
TimedOut == {i \in 1..Len(probes) : oracle[probes[i].url] = "TimeoutExpired"}

\* what the wrapper of the running script answers for a plain rejection
Rejection ==
    IF script = "extract_video_urls"
    THEN urls_is_downloadable_with_ytdlp(engine, "rc1")
    ELSE embedded_is_downloadable_with_ytdlp(engine, "rc1")

\* the extraction of the running script on a given response
Extraction(resp) ==
    IF script = "extract_video_urls"
    THEN extract_video_url_from_webpage(seed, url, resp)
    ELSE extract_video_urls_from_page(seed, url, resp)

(***************************************************************************)
(* C21  A timeout is handled like a rejection: a probe that times out      *)
(* gives the not-downloadable outcome of a rejected probe, the resolution  *)
(* goes on to the next candidate or ends unresolved in the same way, and   *)
(* a page fetch that times out is handled as any other fetch failure.      *)
(***************************************************************************)
C21_TimeoutLikeRejection ==
    /\ \A i \in TimedOut :
          /\ probes[i].downloadable = Rejection.downloadable
          /\ (probes[i].error = "") = (Rejection.error = "")
          /\ raised = ""
          /\ pc # "raised"
          /\ (pc = "done" /\ AcceptedProbes = {}) =>
                /\ Len(probes) = 1 + Len(potential)
                /\ Unresolved
    /\ (response.outcome = "Timeout" /\ fetches = 1) =>
          /\ Extraction(response) =
                Extraction([response EXCEPT !.outcome = "ConnectionError"])
          /\ pc \in {"loop", "done"}
          /\ potential = <<>>

C21_Witness ==
    /\ Done
    /\ Len(probes) >= 3
    /\ 2 \in TimedOut
    /\ Unresolved

\* the futures whose probe is in flight or has finished
Taken == {i \in DOMAIN futures : futures[i].state \in {"running", "finished"}}

MatchedValues(page) ==
    {p.value : p \in {q \in UNION {Range(sc.pairs) : sc \in Range(page.scripts)} :
                         json_pattern(q)}}

(***************************************************************************)
(* C23  InlineScript candidates equal the matched value: for every inline  *)
(* script pair with a recognized key and a value ending in a recognized    *)
(* video extension, the candidate emitted is exactly that value, resolved  *)
(* when relative, with no character added or removed.                      *)
(***************************************************************************)
C23_ScriptCandidateIsMatchedValue ==
    (/\ script = "extract_embedded_videos"
     /\ pc \in {"loop", "done"} /\ fetches = 1 /\ response.outcome = "ok") =>
        LET expected == {urljoin(response.url, v) :
                            v \in MatchedValues(response.page)}
            emitted == Range(embedded_script_urls(response.url, response.page))
        IN  /\ emitted = expected
            /\ expected \subseteq Range(potential)
            /\ emitted \subseteq Range(potential)

\* the URLs process_url reports as resolved
Reported ==
    IF script = "extract_video_urls"
    THEN (IF ret = None THEN {} ELSE {ret})
    ELSE Range(results.downloadable_videos)

(***************************************************************************)
(* C24  Soundness of the resolved URL: every URL process_url reports as    *)
(* resolved is the input URL or a member of the candidate list extracted   *)
(* in the same resolution, and the oracle answered downloadable for that   *)
(* URL in that resolution.                                                 *)
(***************************************************************************)
C24_ResolvedUrlSound ==
    caller = "process_url" =>
        \A u \in Reported :
            /\ u = url \/ (fetches = 1 /\ u \in Range(potential))
            /\ \E i \in 1..Len(probes) :
                  /\ probes[i].url = u
                  /\ probes[i].downloadable
                  /\ Accepts(u)

C24_Witness ==
    /\ Done
    /\ Reported # {}
    /\ url \notin Reported
    /\ Len(probes) >= 3

(***************************************************************************)
(* C25  The three oracle wrappers agree: for the same behaviour of yt-dlp  *)
(* on a URL (info, None, an exception, module missing) the wrappers of     *)
(* extract_video_urls, extract_embedded_videos and test_yt_dlp_urls give   *)
(* the same downloadable verdict.                                          *)
(***************************************************************************)
C25_WrappersAgree ==
    \A i \in 1..Len(probes) :
        LET outcome == oracle[probes[i].url]
            verdicts ==
                {urls_is_downloadable_with_ytdlp(engine, outcome).downloadable,
                 embedded_is_downloadable_with_ytdlp(engine, outcome)
                     .downloadable,
                 test_is_downloadable_with_ytdlp(engine, outcome).downloadable}
        IN  verdicts = {probes[i].downloadable}

\* the outcomes handed to format_results
Outcomes_formatted == MapSeq(all_results, LAMBDA e : e.value)

(***************************************************************************)
(* C26  format_results partitions the outcomes: results_details has one    *)
(* entry per outcome in the same order, each URL lands in exactly one of   *)
(* downloadable_urls and not_downloadable_urls according to its flag, and  *)
(* the lengths of the two lists sum to the number of outcomes.             *)
(***************************************************************************)
C26_FormatPartitions ==
    formatted_results # NotFormatted =>
        LET rs == Outcomes_formatted
            f == formatted_results
        IN  /\ Len(f.results_details) = Len(rs)
            /\ \A k \in 1..Len(rs) :
                  /\ f.results_details[k].url = rs[k].url
                  /\ f.results_details[k].is_downloadable = rs[k].downloadable
                  /\ rs[k].url \in Range(f.downloadable_urls)
                        <=> rs[k].downloadable
                  /\ rs[k].url \in Range(f.not_downloadable_urls)
                        <=> ~rs[k].downloadable
            /\ NoDuplicates(f.downloadable_urls \o f.not_downloadable_urls)
            /\ Len(f.downloadable_urls) + Len(f.not_downloadable_urls)
                  = Len(rs)

C26_Witness ==
    /\ formatted_results # NotFormatted
    /\ Len(formatted_results.downloadable_urls) >= 1
    /\ Len(formatted_results.not_downloadable_urls) >= 2
    /\ caller = "test_urls_parallel"
    /\ all_results[1].input # 1

(***************************************************************************)
(* C27  Batch download accounting: after each processed URL successful +   *)
(* failed equals the number of URLs processed and len(results), results    *)
(* are in input order, a failed download never keeps the remaining URLs    *)
(* from being attempted, and at the end successful + failed = len(urls).   *)
(***************************************************************************)
C27_BatchAccounting ==
    downloader.running =>
        LET d == downloader
            ok == {k \in 1..Len(d.results) : d.results[k].success}
        IN  /\ d.successful + d.failed = d.i
            /\ d.i = Len(d.results)
            /\ d.successful = Cardinality(ok)
            /\ \A k \in 1..Len(d.results) : d.results[k].url = d.urls[k]
            \* a download that failed does not end the loop
            /\ d.i < Len(d.urls) => d.raised = ""
            /\ d.returned =>
                  /\ d.i = Len(d.urls)
                  /\ d.successful + d.failed = Len(d.urls)

C27_Witness ==
    /\ downloader.running
    /\ downloader.returned
    /\ Len(downloader.urls) >= 3
    /\ ~downloader.results[1].success
    /\ downloader.results[3].success
    /\ downloader.failed >= 2

\* the videos of a list of sources, each with its position in the input
VideosOf(sources) ==
    UNION {IF sources[k].kind = "entry"
           THEN {[id |-> sources[k].id, date |-> sources[k].date]}
           ELSE IF sources[k].kind = "group"
           THEN Range(sources[k].medias)
           ELSE {} : k \in 1..Len(sources)}

\* a date as the number yyyymmdd
DayNumber(f) == 10000 * ToInt(f[1]) + 100 * ToInt(f[2]) + ToInt(f[3])

\* d is a text YYYY-MM-DD that names a day of the calendar from s to e
WellFormedInRange(d, s, e) ==
    /\ d.type = "str"
    /\ Len(d.fields) = 3
    /\ <<Len(d.fields[1]), Len(d.fields[2]), Len(d.fields[3])>> = <<4, 2, 2>>
    /\ ToInt(d.fields[2]) \in 1..12
    /\ ToInt(d.fields[3]) \in 1..DaysIn(ToInt(d.fields[1]), ToInt(d.fields[2]))
    /\ DayNumber(s.fields) <= DayNumber(d.fields)
    /\ DayNumber(d.fields) <= DayNumber(e.fields)

\* the input videos the filter is to select
Wanted ==
    {v \in VideosOf(date_filter.input_file.all_sources) :
        WellFormedInRange(v.date, date_filter.start_date,
                          date_filter.end_date)}

\* the start and end dates were accepted and the input was loaded
Filtered ==
    /\ date_filter.running
    /\ date_filter.pc \in {"save", "returned"}
    /\ date_filter.start # <<>>
    /\ date_filter.input_file.outcome = "ok"

\* the videos this call wrote to the output file
Written ==
    IF date_filter.dumped = <<>> THEN {}
    ELSE VideosOf(date_filter.dumped[1])

(***************************************************************************)
(* C28  as stated: for valid start and end dates, when the filter has      *)
(* returned, the videos written to the output are exactly the input videos *)
(* with a well-formed date in [start, end], no written source has an empty *)
(* medias list, and the returned count is the number of videos written.    *)
(***************************************************************************)
C28_WrittenIsWanted ==
    (Filtered /\ date_filter.pc = "returned") =>
        /\ Written = Wanted
        /\ date_filter.returned = <<Cardinality(Written)>>

(***************************************************************************)
(* C28  amended: for valid start and end dates the filter selects exactly  *)
(* the input videos with a well-formed date in [start, end], drops every   *)
(* source left with no matching media, and returns the number of selected  *)
(* videos; the output file holds the selection when the save succeeds, and *)
(* when the save fails the count is returned all the same.                 *)
(***************************************************************************)
C28_SelectedIsWanted ==
    Filtered =>
        LET sel == date_filter.filtered_sources
        IN  /\ VideosOf(sel) = Wanted
            /\ \A k \in 1..Len(sel) :
                  /\ sel[k].kind \in {"entry", "group"}
                  /\ sel[k].kind = "group" => sel[k].medias # <<>>
            /\ date_filter.total_filtered_videos = Cardinality(Wanted)
            /\ date_filter.pc = "returned" =>
                  /\ date_filter.returned = <<Cardinality(Wanted)>>
                  /\ date_filter.dumped # <<>> =>
                        /\ date_filter.dumped = <<sel>>
                        /\ date_filter.output_file = File(sel)
                  /\ date_filter.dumped = <<>> =>
                        date_filter.output_file \in
                            {date_filter.before, Truncated}

\* a source with two medias keeps one of them, the other has a date that is
\* no day of the calendar, and the file is saved
C28_Witness ==
    /\ Filtered
    /\ date_filter.pc = "returned"
    /\ date_filter.dumped # <<>>
    /\ date_filter.returned = <<1>>
    /\ \E k \in 1..Len(date_filter.all_sources) :
          /\ date_filter.all_sources[k].kind = "group"
          /\ Len(date_filter.all_sources[k].medias) = 2
          /\ \E m \in 1..2 :
                date_filter.all_sources[k].medias[m].date =
                    DateText(<<2, 0, 2, 4>>, <<1, 1>>, <<3, 1>>)

\* the call ended with nothing in range, with a date argument refused, or
\* with the input file not loaded
NothingToWrite ==
    /\ date_filter.running
    /\ date_filter.pc \in {"returned", "raised"}
    /\ \/ date_filter.start = <<>>
       \/ date_filter.input_file.outcome # "ok"
       \/ Wanted = {}

(***************************************************************************)
(* C29  as stated: when the filter finds no video in range, or a date      *)
(* argument is malformed, or the input file cannot be read, it returns 0   *)
(* and the output file is as it was before the call.                       *)
(***************************************************************************)
C29_ReturnsZeroUntouched ==
    NothingToWrite =>
        /\ date_filter.returned = <<0>>
        /\ date_filter.output_file = date_filter.before

(***************************************************************************)
(* C29  amended: in each of those cases the output file is as it was       *)
(* before the call; the filter returns 0, except that an error of reading  *)
(* the input other than FileNotFoundError and JSONDecodeError leaves the   *)
(* function as an exception and nothing is returned.                       *)
(***************************************************************************)
C29_UntouchedZeroOrRaised ==
    NothingToWrite =>
        /\ date_filter.output_file = date_filter.before
        /\ date_filter.dumped = <<>>
        /\ IF /\ date_filter.start # <<>>
              /\ date_filter.input_file.outcome \notin
                    {"ok", "FileNotFoundError", "JSONDecodeError"}
           THEN /\ date_filter.pc = "raised"
                /\ date_filter.returned = <<>>
           ELSE /\ date_filter.pc = "returned"
                /\ date_filter.returned = <<0>>

\* an earlier output file is there, the input holds videos and none of them
\* is in range
C29_Witness ==
    /\ date_filter.running
    /\ date_filter.pc = "returned"
    /\ date_filter.start # <<>>
    /\ date_filter.input_file.outcome = "ok"
    /\ VideosOf(date_filter.all_sources) # {}
    /\ Wanted = {}
    /\ date_filter.before = EarlierOutput
    /\ date_filter.output_file = EarlierOutput

====
